---------------------------- MODULE Spec2Model ----------------------------
(***************************************************************************)
(* A model of extract_pdf.py: the applicability resolver fsn_to_aircraft,  *)
(* the block segmenter split_into_blocks, the block parser parse_block,    *)
(* the reference-table extractor parse_cb_table and the driver main.       *)
(*                                                                         *)
(* Text is a sequence of one-character strings, so that the regular        *)
(* expressions of the source are matched character by character.           *)
(***************************************************************************)
EXTENDS Integers, Sequences, FiniteSets, TLC

VARIABLES
    pc,            \* position of the modelled run
    fsn_marker,    \* fsn_to_aircraft: its argument
    aircraft,      \* fsn_to_aircraft: its result
    pages,         \* split_into_blocks / main: list of [page, text]
    blocks,        \* split_into_blocks: its result
    default_fsn,   \* parse_cb_table: its second argument
    matches0,      \* parse_cb_table: matches yielded so far by cb_patterns[0]
    matches1,      \* parse_cb_table: matches yielded so far by cb_patterns[1]
    cb_entries,    \* parse_cb_table: rows collected by the pattern loop
    cb_table,      \* parse_cb_table: its result
    merge,         \* main: args.merge
    existing,      \* main: the document at args.out before the run
    idx,           \* main: number of blocks the loop has processed
    entry,         \* main: the value last assigned to entry
    raised,        \* main: the blocks (by number) on which parse_block raised
    messages,      \* main: records collected
    skipped,       \* main: skipped counter
    output         \* main: the document written to args.out

vars == <<pc, fsn_marker, aircraft, pages, blocks, default_fsn, matches0,
          matches1, cb_entries, cb_table, merge, existing, idx, entry,
          raised, messages, skipped, output>>

\* Python None, as a value comparable with the records it stands in for
None == [none |-> TRUE]

(***************************************************************************)
(* Characters and the str / re primitives the source uses.                 *)
(***************************************************************************)
NL == "\n"
LowerLetters == <<"a","b","c","d","e","f","g","h","i","j","k","l","m",
                  "n","o","p","q","r","s","t","u","v","w","x","y","z">>
UpperLetters == <<"A","B","C","D","E","F","G","H","I","J","K","L","M",
                  "N","O","P","Q","R","S","T","U","V","W","X","Y","Z">>
Digits == <<"0","1","2","3","4","5","6","7","8","9">>

Range(f) == {f[i] : i \in DOMAIN f}
LowerSet == Range(LowerLetters)
UpperSet == Range(UpperLetters)
DigitSet == Range(Digits)

\* \d, \s and \w of the re module, on the characters of the model
IsDigit(c) == c \in DigitSet
IsSpace(c) == c \in {" ", NL, "\t"}
IsWord(c) == c \in DigitSet \cup LowerSet \cup UpperSet \cup {"_"}

UpperMap == [c \in LowerSet |-> UpperLetters[CHOOSE i \in 1..26 : LowerLetters[i] = c]]
LowerMap == [c \in UpperSet |-> LowerLetters[CHOOSE i \in 1..26 : UpperLetters[i] = c]]
UpperChar(c) == IF c \in LowerSet THEN UpperMap[c] ELSE c
LowerChar(c) == IF c \in UpperSet THEN LowerMap[c] ELSE c

\* str.upper() and str.lower()
Upper(s) == [i \in 1..Len(s) |-> UpperChar(s[i])]
Lower(s) == [i \in 1..Len(s) |-> LowerChar(s[i])]

\* the character at 1-based position i, "" outside the string
At(s, i) == IF i >= 1 /\ i <= Len(s) THEN s[i] ELSE ""

\* s[i-1:j-1] of Python for 1-based i and exclusive 1-based j
Slice(s, i, j) == IF j <= i THEN <<>> ELSE SubSeq(s, i, j - 1)

\* lit occurs in s at position i (re.IGNORECASE when ci)
LitAt(s, i, lit, ci) ==
    /\ i >= 1
    /\ i + Len(lit) - 1 <= Len(s)
    /\ \A k \in 1..Len(lit) :
          IF ci THEN UpperChar(s[i + k - 1]) = UpperChar(lit[k])
                ELSE s[i + k - 1] = lit[k]

\* "lit in s"
Contains(s, lit) == \E i \in 1..(Len(s) + 1) : LitAt(s, i, lit, FALSE)

\* the end of the greedy run of a character class from i: the first position
\* j >= i whose character is not in the class (Len(s) + 1 at the end of s)
RunEnd(s, i, In(_)) ==
    CHOOSE j \in i..(Len(s) + 1) :
        /\ ~In(At(s, j))
        /\ \A k \in i..(j - 1) : In(s[k])
SpaceRunEnd(s, i) == RunEnd(s, i, IsSpace)

\* the value e under the name that F gives it
With(e, F(_)) == F(e)

\* the least and the greatest element of a set of positions, 0 if it is empty
Least0(J) == IF J = {} THEN 0 ELSE CHOOSE j \in J : \A k \in J : j <= k
Greatest0(J) == IF J = {} THEN 0 ELSE CHOOSE j \in J : \A k \in J : k <= j

\* the first position j >= i at which the pattern, given by its match-end
\* operator, matches; 0 if there is none
FirstMatch(s, i, MatchEnd(_, _)) == Least0({j \in i..Len(s) : MatchEnd(s, j) # 0})

\* str.strip(chars): leading and trailing characters of the class removed
StripClass(s, In(_)) ==
    IF \A k \in 1..Len(s) : In(s[k]) THEN <<>>
    ELSE LET a == CHOOSE j \in 1..Len(s) :
                      ~In(s[j]) /\ \A k \in 1..(j - 1) : In(s[k])
             b == CHOOSE j \in 1..Len(s) :
                      ~In(s[j]) /\ \A k \in (j + 1)..Len(s) : In(s[k])
         IN  SubSeq(s, a, b)
\* str.strip()
Strip(s) == StripClass(s, IsSpace)

\* str(n) for n >= 0 and int(s) for a string of digits
RECURSIVE IntToStr(_)
IntToStr(n) == IF n < 10 THEN <<Digits[n + 1]>>
               ELSE IntToStr(n \div 10) \o <<Digits[(n % 10) + 1]>>
DigitVal(c) == CHOOSE v \in 0..9 : Digits[v + 1] = c
RECURSIVE StrToInt(_)
StrToInt(s) == IF s = <<>> THEN 0
               ELSE 10 * StrToInt(SubSeq(s, 1, Len(s) - 1)) + DigitVal(s[Len(s)])

\* concatenation of a sequence of strings
RECURSIVE Concat(_)
Concat(ss) == IF ss = <<>> THEN <<>> ELSE Head(ss) \o Concat(Tail(ss))

(***************************************************************************)
(* fsn_to_aircraft (lines 34-51)                                           *)
(***************************************************************************)
\* re.findall(r"0[5-9]\d-\d+", fsn_marker): the positions where it matches
ceo_ranges(s) ==
    {i \in 1..Len(s) : /\ At(s, i) = "0"
                       /\ At(s, i + 1) \in {"5","6","7","8","9"}
                       /\ IsDigit(At(s, i + 2))
                       /\ At(s, i + 3) = "-"
                       /\ IsDigit(At(s, i + 4))}

\* re.findall(r"1\d\d-\d+", fsn_marker): the positions where it matches
neo_ranges(s) ==
    {i \in 1..Len(s) : /\ At(s, i) = "1"
                       /\ IsDigit(At(s, i + 1))
                       /\ IsDigit(At(s, i + 2))
                       /\ At(s, i + 3) = "-"
                       /\ IsDigit(At(s, i + 4))}

\* re.search(r"05[1-9]|0[6-9]\d|100", fsn_marker)
CeoSingle(s) ==
    \E i \in 1..Len(s) :
        \/ At(s, i) = "0" /\ At(s, i + 1) = "5"
             /\ At(s, i + 2) \in {"1","2","3","4","5","6","7","8","9"}
        \/ At(s, i) = "0" /\ At(s, i + 1) \in {"6","7","8","9"}
             /\ IsDigit(At(s, i + 2))
        \/ At(s, i) = "1" /\ At(s, i + 1) = "0" /\ At(s, i + 2) = "0"

\* re.search(r"10[1-9]|1[1-4]\d|150", fsn_marker)
NeoSingle(s) ==
    \E i \in 1..Len(s) :
        \/ At(s, i) = "1" /\ At(s, i + 1) = "0"
             /\ At(s, i + 2) \in {"1","2","3","4","5","6","7","8","9"}
        \/ At(s, i) = "1" /\ At(s, i + 1) \in {"1","2","3","4"}
             /\ IsDigit(At(s, i + 2))
        \/ At(s, i) = "1" /\ At(s, i + 1) = "5" /\ At(s, i + 2) = "0"

has_ceo(s) == ceo_ranges(s) # {} \/ CeoSingle(s)
has_neo(s) == neo_ranges(s) # {} \/ NeoSingle(s)

BothVariants == <<<<"C","E","O">>, <<"N","E","O">>>>

fsn_to_aircraft(s) ==
    IF s = <<>> \/ Contains(Upper(s), <<"A","L","L">>)
    THEN BothVariants
    ELSE LET a == (IF has_ceo(s) THEN <<BothVariants[1]>> ELSE <<>>)
                  \o (IF has_neo(s) THEN <<BothVariants[2]>> ELSE <<>>)
         IN  IF a # <<>> THEN a ELSE BothVariants


(***************************************************************************)
(* split_into_blocks (lines 69-105)                                        *)
(***************************************************************************)
S_SUBTASK == <<"S","U","B","T","A","S","K">>
MarkerOpen == <<"<","<","<","P","A","G","E"," ">>
MarkerClose == <<">",">",">">>

\* f"\n<<<PAGE {p['page']}>>>\n"
PageMarker(n) == <<NL>> \o MarkerOpen \o IntToStr(n) \o MarkerClose \o <<NL>>

\* full_text = "\n".join(p["text"] for p in pages)     (line 74)
RECURSIVE full_text(_)
full_text(ps) ==
    IF ps = <<>> THEN <<>>
    ELSE IF Len(ps) = 1 THEN ps[1].text
    ELSE ps[1].text \o <<NL>> \o full_text(Tail(ps))

\* the loop of lines 76-78
RECURSIVE full_with_markers(_)
full_with_markers(ps) ==
    IF ps = <<>> THEN <<>>
    ELSE full_with_markers(SubSeq(ps, 1, Len(ps) - 1))
           \o PageMarker(ps[Len(ps)].page) \o ps[Len(ps)].text

IsDigitDash(c) == IsDigit(c) \/ c = "-"
IsWordSpace(c) == IsWord(c) \/ IsSpace(c)
DigitDashRunEnd(s, i) == RunEnd(s, i, IsDigitDash)
WordSpaceRunEnd(s, i) == RunEnd(s, i, IsWordSpace)
DigitRunEnd(s, i) == RunEnd(s, i, IsDigit)

\* [\d-]+ has taken s[b..k-1]; the rest of the header pattern, \s*, a dash
\* (the texts here are ASCII: the hyphen) and \s*[\w\s]+, matched greedily
\* from k: the end of the match, 0 if none
SubtaskTailEnd(s, k) ==
    LET d == SpaceRunEnd(s, k)
        f == WordSpaceRunEnd(s, d + 1)
    IN  IF At(s, d) = "-" /\ f > d + 1 THEN f ELSE 0

\* [\d-]+ first takes the whole run s[b..c-1] and gives back one character at
\* a time: the match is the one with the longest [\d-]+ that has a tail
SubtaskBacktrack(s, b, c) ==
    With(Greatest0({k \in (b + 1)..c : SubtaskTailEnd(s, k) # 0}),
         LAMBDA k : IF k = 0 THEN 0 ELSE SubtaskTailEnd(s, k))

\* subtask_pattern (lines 81-84, re.IGNORECASE) tried at position i: the
\* exclusive end of the match, 0 if it does not match there
SubtaskMatchEnd(s, i) ==
    IF ~LitAt(s, i, S_SUBTASK, TRUE) \/ ~IsSpace(At(s, i + 7)) THEN 0
    ELSE With(SpaceRunEnd(s, i + 7),
              LAMBDA b : SubtaskBacktrack(s, b, DigitDashRunEnd(s, b)))

\* list(subtask_pattern.finditer(s)): <<start, end>> of each match, scanning
\* from position i, matches not overlapping
RECURSIVE SubtaskFinditer(_, _)
SubtaskFinditer(s, i) ==
    With(FirstMatch(s, i, SubtaskMatchEnd),
         LAMBDA j : IF j = 0 THEN <<>>
                    ELSE With(SubtaskMatchEnd(s, j),
                              LAMBDA e : <<<<j, e>>>> \o SubtaskFinditer(s, e)))

\* "<<<PAGE (\d+)>>>" tried at position i: the exclusive end, 0 if no match
PageMarkerEnd(s, i) ==
    IF ~LitAt(s, i, MarkerOpen, FALSE) THEN 0
    ELSE With(DigitRunEnd(s, i + 8),
              LAMBDA d : IF d > i + 8 /\ LitAt(s, d, MarkerClose, FALSE)
                         THEN d + 3 ELSE 0)

\* re.findall(r"<<<PAGE (\d+)>>>", s): the captured digit strings
RECURSIVE PageMarkerFindall(_, _)
PageMarkerFindall(s, i) ==
    With(FirstMatch(s, i, PageMarkerEnd),
         LAMBDA j : IF j = 0 THEN <<>>
                    ELSE With(PageMarkerEnd(s, j),
                              LAMBDA e : <<Slice(s, j + 8, e - 3)>>
                                           \o PageMarkerFindall(s, e)))

\* a plausible slip: the highest page number seen, not the preceding one
RECURSIVE MaxPage(_)
MaxPage(ms) == IF ms = <<>> THEN 0
               ELSE LET r == MaxPage(Tail(ms))
                        h == StrToInt(Head(ms))
                    IN  IF h > r THEN h ELSE r
page_num_highest(page_markers) == MaxPage(page_markers)

\* page_num = int(page_markers[-1]) if page_markers else 0     (line 97)
page_num(page_markers) ==
    IF page_markers # <<>> THEN StrToInt(page_markers[Len(page_markers)]) ELSE 0

\* the splits of line 87 for a page list
Splits(ps) == SubtaskFinditer(full_with_markers(ps), 1)

\* the body of the loop of lines 89-103 for match number k
BlockOf(s, splits, k) ==
    LET start == splits[k][1]
        end == IF k + 1 <= Len(splits) THEN splits[k + 1][1] ELSE Len(s) + 1
    IN  [subtask_header |-> Strip(Slice(s, start, splits[k][2])),
         text |-> Slice(s, start, end),
         page |-> page_num(PageMarkerFindall(Slice(s, 1, start), 1))]

BlocksOf(s, splits) == [k \in 1..Len(splits) |-> BlockOf(s, splits, k)]

split_into_blocks(ps) ==
    With(full_with_markers(ps), LAMBDA s : BlocksOf(s, SubtaskFinditer(s, 1)))

(***************************************************************************)
(* parse_block (lines 109-218): the field extractors                       *)
(***************************************************************************)
IsUpper(c) == c \in UpperSet
IsLetter(c) == c \in UpperSet \cup LowerSet

\* list(dict.fromkeys(xs)): duplicates dropped, first occurrences kept
RECURSIVE Dedup(_)
Dedup(xs) ==
    IF xs = <<>> THEN <<>>
    ELSE LET r == Dedup(SubSeq(xs, 1, Len(xs) - 1))
             x == xs[Len(xs)]
         IN  IF \E k \in 1..Len(r) : r[k] = x THEN r ELSE Append(r, x)

\* xs[:n]
Take(xs, n) == SubSeq(xs, 1, IF Len(xs) < n THEN Len(xs) ELSE n)

\* ---- FSN applicability (lines 115-119) ----
S_STARS == <<"*","*">>
S_ON == <<"O","N">>
S_AC == <<"A","/","C">>
S_FSN == <<"F","S","N">>
S_ALL == <<"A","L","L">>
IsFsnHead(c) == IsDigit(c) \/ IsSpace(c) \/ c \in {",", "-"}

\* "\*\*\s*ON\s+A/C\s+FSN" matched at i: the position of the whitespace that
\* must follow FSN, 0 if no match
FsnPrefixEnd(s, i) ==
    IF ~LitAt(s, i, S_STARS, FALSE) THEN 0
    ELSE LET a == SpaceRunEnd(s, i + 2)
         IN  IF ~LitAt(s, a, S_ON, TRUE) \/ ~IsSpace(At(s, a + 2)) THEN 0
             ELSE LET b == SpaceRunEnd(s, a + 2)
                  IN  IF ~LitAt(s, b, S_AC, TRUE) \/ ~IsSpace(At(s, b + 3)) THEN 0
                      ELSE LET c == SpaceRunEnd(s, b + 3)
                           IN  IF ~LitAt(s, c, S_FSN, TRUE) \/ ~IsSpace(At(s, c + 3))
                               THEN 0 ELSE c + 3

\* the start of group 1: after the greedy \s+, or one whitespace earlier when
\* the character after the whitespace cannot start the group; 0 if no match
FsnGroupStart(s, i) ==
    With(FsnPrefixEnd(s, i),
         LAMBDA w : LET b == SpaceRunEnd(s, w)
                    IN  IF w = 0 THEN 0
                        ELSE IF IsFsnHead(At(s, b)) THEN b
                        ELSE IF b - w >= 2 THEN b - 1
                        ELSE 0)

IsFsnTailChar(c) == c = "," \/ IsDigit(c) \/ IsSpace(c)

\* (?:TO|AND|OR|,|[\d\s])* matched greedily from i: its end
RECURSIVE FsnTailEnd(_, _)
FsnTailEnd(s, i) ==
    IF LitAt(s, i, <<"T","O">>, TRUE) THEN FsnTailEnd(s, i + 2)
    ELSE IF LitAt(s, i, <<"A","N","D">>, TRUE) THEN FsnTailEnd(s, i + 3)
    ELSE IF LitAt(s, i, <<"O","R">>, TRUE) THEN FsnTailEnd(s, i + 2)
    ELSE IF IsFsnTailChar(At(s, i))
    THEN FsnTailEnd(s, RunEnd(s, i, IsFsnTailChar))
    ELSE i

\* the pattern tried at position i: the start of group 1 and the exclusive
\* end of the match, <<0, 0>> if it does not match there
FsnMatch(s, i) ==
    With(FsnGroupStart(s, i),
         LAMBDA g : IF g = 0 THEN <<0, 0>>
                    ELSE <<g, FsnTailEnd(s, RunEnd(s, g, IsFsnHead))>>)
FsnMatchEnd(s, i) == FsnMatch(s, i)[2]

\* fsn_str (line 119)
fsn_str(text) ==
    With(FirstMatch(text, 1, FsnMatchEnd),
         LAMBDA i : IF i = 0 THEN S_ALL
                    ELSE With(FsnMatch(text, i),
                              LAMBDA m : Strip(Slice(text, m[1], m[2]))))

\* ---- ATA chapter (lines 123-124) ----
AtaKeywordLen(s, i) ==
    IF LitAt(s, i, <<"A","T","A">>, FALSE) THEN 3
    ELSE IF LitAt(s, i, <<"T","A","S","K">>, FALSE) THEN 4
    ELSE 0

\* the position of the two captured digits, 0 if no match at i
AtaMatchEnd(s, i) ==
    With(AtaKeywordLen(s, i),
         LAMBDA n : LET b == SpaceRunEnd(s, i + n)
                    IN  IF /\ n # 0
                           /\ b > i + n
                           /\ IsDigit(At(s, b))
                           /\ IsDigit(At(s, b + 1))
                           /\ (At(s, b + 2) = "-" \/ IsSpace(At(s, b + 2)))
                        THEN b ELSE 0)

ata(text) ==
    With(FirstMatch(text, 1, AtaMatchEnd),
         LAMBDA i : IF i = 0 THEN <<"0","0">>
                    ELSE With(AtaMatchEnd(text, i),
                              LAMBDA b : Slice(text, b, b + 2)))

\* ---- ECAM message extraction (lines 126-149) ----
S_ECAM == <<"E","C","A","M">>
S_ALERT == <<"A","L","E","R","T">>
S_MESSAGE == <<"M","E","S","S","A","G","E">>
S_FAULT == <<"F","A","U","L","T">>

\* [^:\n] and, under re.IGNORECASE, [A-Z0-9 /\+]
IsNotColonNl(c) == c # "" /\ c \notin {":", NL}
IsEcamTail(c) == IsLetter(c) \/ IsDigit(c) \/ c \in {" ", "/", "+"}

EcamKeywordLen(s, i) ==
    IF LitAt(s, i, S_ECAM, TRUE) THEN 4
    ELSE IF LitAt(s, i, S_ALERT, TRUE) THEN 5
    ELSE IF LitAt(s, i, S_MESSAGE, TRUE) THEN 7
    ELSE 0

\* with the separator [:-] at q, \s* and group 1 can follow: the group starts
\* at the first non-blank after q with a letter and one more character
EcamGroupStartAfter(s, q) ==
    LET t == SpaceRunEnd(s, q + 1)
    IN  IF IsLetter(At(s, t)) /\ IsEcamTail(At(s, t + 1)) THEN t ELSE 0

\* the separator the match uses: [^:\n]* is greedy, so the last position of
\* the run (or the colon ending it) from which the rest matches; 0 if none
EcamSeparator(s, i) ==
    With(EcamKeywordLen(s, i),
         LAMBDA n : IF n = 0 THEN 0
                    ELSE Greatest0({q \in (i + n)..RunEnd(s, i + n, IsNotColonNl) :
                                       /\ At(s, q) \in {":", "-"}
                                       /\ EcamGroupStartAfter(s, q) # 0}))

EcamGroupStart(s, i) ==
    With(EcamSeparator(s, i),
         LAMBDA q : IF q = 0 THEN 0 ELSE EcamGroupStartAfter(s, q))

\* ecam_pattern tried at position i: the start of group 1 and the exclusive
\* end of the match, <<0, 0>> if it does not match there
EcamMatch(s, i) ==
    With(EcamGroupStart(s, i),
         LAMBDA t : IF t = 0 THEN <<0, 0>>
                    ELSE <<t, RunEnd(s, t + 1, IsEcamTail)>>)
EcamMatchEnd(s, i) == EcamMatch(s, i)[2]

\* m.group(1).strip() for m in ecam_pattern.finditer(s), scanning from i
RECURSIVE EcamFinditer(_, _)
EcamFinditer(s, i) ==
    With(FirstMatch(s, i, EcamMatchEnd),
         LAMBDA j : IF j = 0 THEN <<>>
                    ELSE With(EcamMatch(s, j),
                              LAMBDA m : <<Strip(Slice(s, m[1], m[2]))>>
                                           \o EcamFinditer(s, m[2])))

LongerThan4(m) == Len(m) > 4
\* lines 133-137
EcamPrimary(text) == Dedup(SelectSeq(EcamFinditer(text, 1), LongerThan4))

\* \b at position p: exactly one of s[p-1], s[p] is a word character
WordBoundary(s, p) == IsWord(At(s, p - 1)) # IsWord(At(s, p))

\* the end of (?:\s+\d+)?(?:\s+FAULT)?\b from p, in the order the engine
\* tries the alternatives; 0 if none succeeds
KnownTailEnd(s, p) ==
    LET w == SpaceRunEnd(s, p)
        q == DigitRunEnd(s, w)
        hasD == w > p /\ q > w
        w2 == SpaceRunEnd(s, q)
        dF == hasD /\ w2 > q /\ LitAt(s, w2, S_FAULT, FALSE) /\ WordBoundary(s, w2 + 5)
        onlyF == w > p /\ LitAt(s, w, S_FAULT, FALSE) /\ WordBoundary(s, w + 5)
    IN  IF dF THEN w2 + 5
        ELSE IF hasD /\ WordBoundary(s, q) THEN q
        ELSE IF onlyF THEN w + 5
        ELSE IF WordBoundary(s, p) THEN p
        ELSE 0

\* p follows an upper-case run: one more (?:\s+[A-Z]{2,}) if the rest then
\* matches, else the tail from p
RECURSIVE KnownRestEnd(_, _)
KnownRestEnd(s, p) ==
    With(LET w == SpaceRunEnd(s, p)
             u == RunEnd(s, w, IsUpper)
         IN  IF w > p /\ u - w >= 2 THEN KnownRestEnd(s, u) ELSE 0,
         LAMBDA more : IF more # 0 THEN more ELSE KnownTailEnd(s, p))

\* the fallback pattern of line 142 (case-sensitive) tried at position i
KnownMatchEnd(s, i) ==
    LET p == RunEnd(s, i, IsUpper)
        w == SpaceRunEnd(s, p)
        u == RunEnd(s, w, IsUpper)
    IN  IF /\ ~IsWord(At(s, i - 1))
           /\ p - i >= 2 /\ p - i <= 4
           /\ w > p
           /\ u - w >= 2
        THEN KnownRestEnd(s, u) ELSE 0

RECURSIVE KnownFindall(_, _)
KnownFindall(s, i) ==
    With(FirstMatch(s, i, KnownMatchEnd),
         LAMBDA j : IF j = 0 THEN <<>>
                    ELSE With(KnownMatchEnd(s, j),
                              LAMBDA e : <<Slice(s, j, e)>> \o KnownFindall(s, e)))

LongerThan6(k) == Len(k) > 6
MaxKnown == 4
StripAll(xs) == [k \in 1..Len(xs) |-> Strip(xs[k])]
\* lines 141-145
EcamKnown(text) ==
    Take(Dedup(StripAll(SelectSeq(KnownFindall(text, 1), LongerThan6))), MaxKnown)

\* str.replace(old, ""): every occurrence of old removed, left to right
RECURSIVE RemoveAll(_, _)
RemoveAll(s, old) ==
    With(Least0({j \in 1..Len(s) : LitAt(s, j, old, FALSE)}),
         LAMBDA j : IF j = 0 THEN s
                    ELSE Slice(s, 1, j)
                           \o RemoveAll(Slice(s, j + Len(old), Len(s) + 1), old))

\* line 149
HeaderFallback(subtask_header) == <<Strip(RemoveAll(subtask_header, S_SUBTASK))>>

\* ecam_msgs after line 149
FirstNonEmpty(a, b, c) == IF a # <<>> THEN a ELSE IF b # <<>> THEN b ELSE c
ecam_msgs(block) ==
    FirstNonEmpty(EcamPrimary(block.text), EcamKnown(block.text),
                  HeaderFallback(block.subtask_header))

\* ---- Reset procedure (lines 158-175) ----
S_RESET_PROCEDURE == <<"R","E","S","E","T"," ","P","R","O","C","E","D","U","R","E">>
S_PROCEDURE == <<"P","R","O","C","E","D","U","R","E">>
ProcTerminators ==
    {<<"C","I","R","C","U","I","T"," ","B","R","E","A","K","E","R">>,
     <<"W","A","R","N","I","N","G">>,
     <<"C","A","U","T","I","O","N">>,
     <<"N","O","T","E">>,
     S_SUBTASK}

IsColonSpace(c) == c = ":" \/ IsSpace(c)

\* the lookahead (?=CIRCUIT BREAKER|WARNING|CAUTION|NOTE|SUBTASK|\Z) at e
AtProcTerminator(s, e) ==
    e = Len(s) + 1 \/ \E t \in ProcTerminators : LitAt(s, e, t, TRUE)

ProcKeywordLen(s, i) ==
    IF LitAt(s, i, S_RESET_PROCEDURE, TRUE) THEN 15
    ELSE IF LitAt(s, i, S_PROCEDURE, TRUE) THEN 9
    ELSE 0

\* the start of group 1: after the greedy [:\s]*, or its last character when
\* that run reaches the end of the text; 0 if no match at i
ProcGroupStart(s, i) ==
    With(ProcKeywordLen(s, i),
         LAMBDA n : LET b == RunEnd(s, i + n, IsColonSpace)
                    IN  IF n = 0 THEN 0
                        ELSE IF b <= Len(s) THEN b
                        ELSE IF b > i + n THEN b - 1
                        ELSE 0)

\* the pattern tried at position i: the start of group 1 and the exclusive
\* end of the match, <<0, 0>> if it does not match there; the lazy group ends
\* at the first terminator after at least one character
ProcMatch(s, i) ==
    With(ProcGroupStart(s, i),
         LAMBDA g : IF g = 0 THEN <<0, 0>>
                    ELSE <<g, Least0({e \in (g + 1)..(Len(s) + 1) :
                                         AtProcTerminator(s, e)})>>)
ProcMatchEnd(s, i) == ProcMatch(s, i)[2]

\* raw_proc (line 163)
raw_proc(text) ==
    With(FirstMatch(text, 1, ProcMatchEnd),
         LAMBDA i : IF i = 0 THEN <<>>
                    ELSE With(ProcMatch(text, i),
                              LAMBDA m : Strip(Slice(text, m[1], m[2]))))

\* s.split("\n")
RECURSIVE SplitLines(_)
SplitLines(s) ==
    With(Least0({j \in 1..Len(s) : s[j] = NL}),
         LAMBDA j : IF j = 0 THEN <<s>>
                    ELSE <<Slice(s, 1, j)>> \o SplitLines(Slice(s, j + 1, Len(s) + 1)))

\* a plausible slip: the existing number is kept
StripNumberKept(line) == line

\* re.sub(r"^\d+[\.\)]\s*", "", line)     (line 172)
StripNumber(line) ==
    LET d == DigitRunEnd(line, 1)
    IN  IF d > 1 /\ At(line, d) \in {".", ")"}
        THEN Slice(line, SpaceRunEnd(line, d + 1), Len(line) + 1)
        ELSE line

MinStepLen == 5
\* the loop of lines 166-173
RECURSIVE StepsOf(_)
StepsOf(lines) ==
    IF lines = <<>> THEN <<>>
    ELSE With(Strip(Head(lines)),
              LAMBDA line : IF Len(line) < MinStepLen THEN StepsOf(Tail(lines))
                            ELSE <<StripNumber(line)>> \o StepsOf(Tail(lines)))

\* "\n".join(f"{i+1}. {s}" for i, s in enumerate(steps)), the steps from
\* number n on
RECURSIVE NumberedFrom(_, _)
NumberedFrom(steps, n) ==
    IF n > Len(steps) THEN <<>>
    ELSE (IF n > 1 THEN <<NL>> ELSE <<>>)
           \o IntToStr(n) \o <<".", " ">> \o steps[n] \o NumberedFrom(steps, n + 1)

\* reset_procedure (line 175)
reset_procedure(text) ==
    With(raw_proc(text),
         LAMBDA raw : With(StepsOf(SplitLines(raw)),
                           LAMBDA steps : IF steps # <<>> THEN NumberedFrom(steps, 1)
                                          ELSE raw))

\* ---- Build unique ID (lines 201-203) ----
IdMaxLen == 60
IsIdChar(c) == c \in LowerSet \cup DigitSet
IsHyphen(c) == c = "-"
NotDropped(c) == c # ""

\* re.sub(r"[^a-z0-9]+", "-", s): each run of other characters becomes one "-"
Slug(s) ==
    SelectSeq([k \in 1..Len(s) |->
                  IF IsIdChar(s[k]) THEN s[k]
                  ELSE IF k = 1 \/ IsIdChar(s[k - 1]) THEN "-"
                  ELSE ""],
              NotDropped)

PageSuffix(page) == <<"-", "p">> \o IntToStr(page)

\* id_base is ecam_msgs[0].lower(): line 149 leaves ecam_msgs non-empty
id_str(msgs, page) ==
    Take(StripClass(Slug(Lower(msgs[1])), IsHyphen), IdMaxLen) \o PageSuffix(page)

\* ---- the record returned (lines 205-218), without computer, notes,
\* warnings, cautions and cbTable, on which no other field depends;
\* source_page and fsn_raw stand for _source_page and _fsn_raw
Entry(block, fsn, msgs) ==
    [id |-> id_str(msgs, block.page),
     aircraft |-> fsn_to_aircraft(fsn),
     ecamMessages |-> msgs,
     ata |-> ata(block.text),
     resetProcedure |-> reset_procedure(block.text),
     source_page |-> block.page,
     fsn_raw |-> fsn]
parse_block(block) == Entry(block, fsn_str(block.text), ecam_msgs(block))

(***************************************************************************)
(* parse_cb_table (lines 221-262).  A match is the tuple match.groups():   *)
(* five groups for cb_patterns[0], two for cb_patterns[1].                 *)
(***************************************************************************)
MinGroups == 4
MaxRows == 10

\* the dict of lines 244-250 for the groups of one match
CbEntry(groups, default) ==
    [panel |-> Strip(groups[1]),
     designation |-> Strip(groups[2]),
     fin |-> Strip(groups[3]),
     location |-> Strip(groups[4]),
     fsn |-> IF Len(groups) > 4 /\ Strip(groups[5]) # <<>>
             THEN Strip(groups[5]) ELSE default]

\* lines 242-250: what one match adds to cb_entries
CbAppend(entries, groups, default) ==
    IF Len(groups) >= MinGroups THEN Append(entries, CbEntry(groups, default))
    ELSE entries

\* lines 255-260: deduplicate by FIN, the first occurrence kept
RECURSIVE DedupByFin(_)
DedupByFin(entries) ==
    IF entries = <<>> THEN <<>>
    ELSE LET unique == DedupByFin(SubSeq(entries, 1, Len(entries) - 1))
             cb == entries[Len(entries)]
         IN  IF \E k \in 1..Len(unique) : unique[k].fin = cb.fin THEN unique
             ELSE Append(unique, cb)

\* a plausible slip: the cap applied before the deduplication
CbResultCapFirst(entries) == DedupByFin(Take(entries, MaxRows))

\* lines 254-262
CbResult(entries) == Take(DedupByFin(entries), MaxRows)

(***************************************************************************)
(* main (lines 266-325)                                                    *)
(***************************************************************************)
\* extract_pages (lines 55-65): the page texts of the PDF, numbered from 1
extract_pages(texts) == [i \in 1..Len(texts) |-> [page |-> i, text |-> texts[i]]]

\* a plausible slip: the exception handler does not count the block
AfterExceptionLost(n) == n

\* skipped += 1 in the handler of lines 297-298
AfterException(n) == n + 1

\* a plausible slip: every fresh record appended, whatever its id
MergedAppendAll(doc, fresh) == doc.messages \o fresh

\* lines 306-308: existing["messages"] + new_entries
Merged(doc, fresh) ==
    LET existing_ids == {doc.messages[k].id : k \in 1..Len(doc.messages)}
        IsNew(m) == m.id \notin existing_ids
    IN  doc.messages \o SelectSeq(fresh, IsNew)

Today == "today"
PdfPath == "resets.pdf"

\* lines 283-287
SplitMain ==
    /\ pc = "start"
    /\ blocks' = split_into_blocks(pages)
    /\ messages' = <<>>
    /\ skipped' = 0
    /\ idx' = 0
    /\ pc' = "loop"
    /\ UNCHANGED <<fsn_marker, aircraft, pages, default_fsn, matches0, matches1,
                   cb_entries, cb_table, merge, existing, entry, raised, output>>

\* lines 289-296: parse_block returns for block idx + 1
ParseReturns ==
    /\ pc = "loop"
    /\ idx < Len(blocks)
    /\ entry' = parse_block(blocks[idx + 1])
    /\ IF entry' # None
       THEN messages' = Append(messages, entry') /\ skipped' = skipped
       ELSE messages' = messages /\ skipped' = skipped + 1
    /\ idx' = idx + 1
    /\ UNCHANGED <<pc, fsn_marker, aircraft, pages, blocks, default_fsn, matches0,
                   matches1, cb_entries, cb_table, merge, existing, raised, output>>

\* lines 297-300: parse_block raises for block idx + 1
ParseRaises ==
    /\ pc = "loop"
    /\ idx < Len(blocks)
    /\ raised' = raised \cup {idx + 1}
    /\ skipped' = AfterException(skipped)
    /\ idx' = idx + 1
    /\ UNCHANGED <<pc, fsn_marker, aircraft, pages, blocks, default_fsn, matches0,
                   matches1, cb_entries, cb_table, merge, existing, entry,
                   messages, output>>

\* lines 303-309, a prior document with "messages"
MergeExisting ==
    /\ pc = "loop"
    /\ idx = Len(blocks)
    /\ merge /\ existing # None
    /\ "messages" \in DOMAIN existing
    /\ messages' = Merged(existing, messages)
    /\ pc' = "write"
    /\ UNCHANGED <<fsn_marker, aircraft, pages, blocks, default_fsn, matches0,
                   matches1, cb_entries, cb_table, merge, existing, idx, entry,
                   raised, skipped, output>>

\* lines 303-308, a prior document without "messages": line 306 reads it with
\* a default, line 308 indexes it and raises KeyError; nothing is written
MergeKeyError ==
    /\ pc = "loop"
    /\ idx = Len(blocks)
    /\ merge /\ existing # None
    /\ "messages" \notin DOMAIN existing
    /\ pc' = "crashed"
    /\ UNCHANGED <<fsn_marker, aircraft, pages, blocks, default_fsn, matches0,
                   matches1, cb_entries, cb_table, merge, existing, idx, entry,
                   raised, messages, skipped, output>>

\* line 303 false: no merge requested, or no file at args.out
SkipMerge ==
    /\ pc = "loop"
    /\ idx = Len(blocks)
    /\ ~(merge /\ existing # None)
    /\ pc' = "write"
    /\ UNCHANGED <<fsn_marker, aircraft, pages, blocks, default_fsn, matches0,
                   matches1, cb_entries, cb_table, merge, existing, idx, entry,
                   raised, messages, skipped, output>>

\* lines 311-319
WriteOutput ==
    /\ pc = "write"
    /\ output' = [version |-> "1.0", lastUpdated |-> Today, source |-> PdfPath,
                  messages |-> messages]
    /\ pc' = "done"
    /\ UNCHANGED <<fsn_marker, aircraft, pages, blocks, default_fsn, matches0,
                   matches1, cb_entries, cb_table, merge, existing, idx, entry,
                   raised, messages, skipped>>

(***************************************************************************)
(* Inputs                                                                  *)
(***************************************************************************)
\* the strings made of at most n tokens of T
RECURSIVE TokenStrings(_, _)
TokenStrings(T, n) ==
    IF n = 0 THEN {<<>>}
    ELSE LET r == TokenStrings(T, n - 1)
         IN  r \cup {a \o t : a \in r, t \in T}

\* the sequences of at most n elements of S
RECURSIVE SeqsUpTo(_, _)
SeqsUpTo(S, n) ==
    IF n = 0 THEN {<<>>}
    ELSE LET r == SeqsUpTo(S, n - 1)
         IN  r \cup {Append(a, x) : a \in r, x \in S}

\* applicability markers: "ALL", "All", "051-070", "101-150", "160-170",
\* "200-300", "075", "120", "200", "2051", " TO ", ", " and their
\* concatenations
MaxMarkerTokens == 2
MarkerTokens ==
    {<<"A","L","L">>, <<"A","l","l">>, <<"0","5","1","-","0","7","0">>, <<"1","0","1","-","1","5","0">>, <<"1","6","0","-","1","7","0">>, <<"2","0","0","-","3","0","0">>,
     <<"0","7","5">>, <<"1","2","0">>, <<"2","0","0">>, <<"2","0","5","1">>, <<" ","T","O"," ">>, <<","," ">>}
Markers == TokenStrings(MarkerTokens, MaxMarkerTokens)

\* page texts for split_into_blocks
\*   "intro"
T_INTRO == <<"i","n","t","r","o">>
\*   "SUBTASK 1 - ab"
T_HEADER == <<"S","U","B","T","A","S","K"," ","1"," ","-"," ","a","b">>
\*   "x\nSUBTASK 2-c\ny."
T_INNER == <<"x","\n","S","U","B","T","A","S","K"," ","2","-","c","\n","y",".">>
\*   "Subtask 3 - d: e\nSUBTASK 4 - f"
T_TWO == <<"S","u","b","t","a","s","k"," ","3"," ","-"," ","d",":"," ","e",
        "\n","S","U","B","T","A","S","K"," ","4"," ","-"," ","f">>
\*   "<<<PAGE 9>>>\nSUBTASK 5 - g": a page whose own text holds a sentinel
T_SENTINEL == <<"<","<","<","P","A","G","E"," ","9",">",">",">","\n","S","U","B",
        "T","A","S","K"," ","5"," ","-"," ","g">>
SplitTexts == {T_INTRO, T_HEADER, T_INNER, T_TWO, T_SENTINEL}
MaxSplitPages == 2
MaxPageNumber == 2
SplitPageLists ==
    SeqsUpTo([page : 1..MaxPageNumber, text : SplitTexts], MaxSplitPages)

\* matches of the two row patterns
MaxMatches == 12
MaxDuplicates == 2
MaxPartial == 2
S_CA == <<"C","A">>
DefaultFsns == {S_ALL, <<"0","5","1","-","0","7","0">>}
FinsOf(ms) == {ms[k][3] : k \in 1..Len(ms)}
\* the FIN of the next row: one not seen yet, or that of the first or of the
\* last row again
NextFins(ms) ==
    {IntToStr(Cardinality(FinsOf(ms)) + 1) \o S_CA}
      \cup (IF ms # <<>> /\ Len(ms) - Cardinality(FinsOf(ms)) < MaxDuplicates
            THEN {ms[1][3], ms[Len(ms)][3]} ELSE {})
\* the groups of row k: "49VU", " SPLY<k>", the FIN, "D01", and a range in
\* every second row
FullGroups(k, fin) ==
    <<<<"4","9","V","U">>, <<" ","S","P","L","Y">> \o IntToStr(k), fin, <<"D","0","1">>,
      IF k % 2 = 0 THEN <<"1","0","1","-","1","5","0","\n">> ELSE <<>>>>
PartialGroups == {<<<<"1","C","A","1">>, <<"D","0","1">>>>, <<<<"2","C","A","2">>, <<"E","0","2">>>>}

\* page texts for main
\*   the scenario block: header, applicability line, procedure line
T_SCENARIO == <<"S","U","B","T","A","S","K"," ","2","4","-","0","0","-","8","1",
        "0"," ","-"," ","P","A","C","K"," ","F","A","U","L","T"," ","R",
        "E","S","E","T","\n","*","*"," ","O","N"," ","A","/","C"," ","F",
        "S","N"," ","0","5","1","-","0","7","0","\n","R","E","S","E","T",
        " ","P","R","O","C","E","D","U","R","E",":"," ","1","."," ","O",
        "p","e","n"," ","p","a","n","e","l"," ","2","."," ","P","r","e",
        "s","s"," ","b","u","t","t","o","n">>
\*   the same procedure with one enumerated item per line
T_LINES == <<"S","U","B","T","A","S","K"," ","2","4","-","0","0","-","8","1",
        "0"," ","-"," ","P","A","C","K"," ","F","A","U","L","T"," ","R",
        "E","S","E","T","\n","*","*"," ","O","N"," ","A","/","C"," ","F",
        "S","N"," ","0","5","1","-","0","7","0","\n","R","E","S","E","T",
        " ","P","R","O","C","E","D","U","R","E",":","\n","1","."," ","O",
        "p","e","n"," ","p","a","n","e","l","\n","2","."," ","P","r","e",
        "s","s"," ","b","u","t","t","o","n">>
\*   two blocks with the same header text on one page
T_SAME == <<"S","U","B","T","A","S","K"," ","2","-","c",".","\n","y",".","S",
        "U","B","T","A","S","K"," ","2","-","c">>
\*   a header whose keyword is in lower case
T_LOWER == <<"x","\n","s","u","b","t","a","s","k"," ","9"," ","-"," ","r","e",
        "s","e","t">>
MainTexts == {T_SCENARIO, T_LINES, T_SAME, T_LOWER}
MaxPages == 2
MainPageLists == {extract_pages(ts) : ts \in SeqsUpTo(MainTexts, MaxPages)}

\* the document found at args.out: none, one without "messages", one with no
\* record, one with two records edited by hand, the second with the id the
\* scenario block gets on page 1
S_CEO == <<"C","E","O">>
S_NEO == <<"N","E","O">>
RecordX ==
    [id |-> <<"o","l","d","-","e","n","t","r","y","-","p","9">>, aircraft |-> <<S_NEO>>,
     ecamMessages |-> <<<<"O","L","D"," ","E","N","T","R","Y">>>>, ata |-> <<"2","1">>,
     resetProcedure |-> <<"1","."," ","R","e","v","i","e","w","e","d">>, source_page |-> 9,
     fsn_raw |-> <<"1","0","1","-","1","5","0">>]
RecordY ==
    [id |-> <<"p","a","c","k","-","f","a","u","l","t","-","r","e","s","e","t",
        "-","p","1">>, aircraft |-> <<S_CEO, S_NEO>>,
     ecamMessages |-> <<<<"P","A","C","K"," ","F","A","U","L","T">>>>, ata |-> <<"2","4">>,
     resetProcedure |-> <<"1","."," ","R","e","v","i","e","w","e","d">>, source_page |-> 1,
     fsn_raw |-> S_ALL]
PriorDoc(msgs) ==
    [version |-> "1.0", lastUpdated |-> "earlier", source |-> PdfPath,
     messages |-> msgs]
PriorDocs ==
    {[version |-> "1.0", lastUpdated |-> "earlier", source |-> PdfPath],
     PriorDoc(<<>>),
     PriorDoc(<<RecordX, RecordY>>)}

(***************************************************************************)
(* The calls of the three functions taken alone.                           *)
(***************************************************************************)
FsnToAircraft ==
    /\ pc = "fsn"
    /\ aircraft' = fsn_to_aircraft(fsn_marker)
    /\ pc' = "done"
    /\ UNCHANGED <<fsn_marker, pages, blocks, default_fsn, matches0, matches1,
                   cb_entries, cb_table, merge, existing, idx, entry, raised,
                   messages, skipped, output>>

SplitIntoBlocks ==
    /\ pc = "split"
    /\ blocks' = split_into_blocks(pages)
    /\ pc' = "done"
    /\ UNCHANGED <<fsn_marker, aircraft, pages, default_fsn, matches0, matches1,
                   cb_entries, cb_table, merge, existing, idx, entry, raised,
                   messages, skipped, output>>

\* the next match of cb_patterns[0] (the loop of lines 241-250)
CbMatch0 ==
    /\ pc = "cb_pattern0"
    /\ Len(matches0) < MaxMatches
    /\ \E fin \in NextFins(matches0) :
          LET groups == FullGroups(Len(matches0) + 1, fin)
          IN  /\ matches0' = Append(matches0, groups)
              /\ cb_entries' = CbAppend(cb_entries, groups, default_fsn)
    /\ UNCHANGED <<pc, fsn_marker, aircraft, pages, blocks, default_fsn, matches1,
                   cb_table, merge, existing, idx, entry, raised, messages,
                   skipped, output>>

\* cb_patterns[0] has no further match: lines 251-252
CbEnd0 ==
    /\ pc = "cb_pattern0"
    /\ pc' = IF cb_entries # <<>> THEN "cb_dedup" ELSE "cb_pattern1"
    /\ UNCHANGED <<fsn_marker, aircraft, pages, blocks, default_fsn, matches0,
                   matches1, cb_entries, cb_table, merge, existing, idx, entry,
                   raised, messages, skipped, output>>

\* the next match of cb_patterns[1]
CbMatch1 ==
    /\ pc = "cb_pattern1"
    /\ Len(matches1) < MaxPartial
    /\ \E groups \in PartialGroups :
          /\ matches1' = Append(matches1, groups)
          /\ cb_entries' = CbAppend(cb_entries, groups, default_fsn)
    /\ UNCHANGED <<pc, fsn_marker, aircraft, pages, blocks, default_fsn, matches0,
                   cb_table, merge, existing, idx, entry, raised, messages,
                   skipped, output>>

\* cb_patterns[1] has no further match: the pattern loop ends
CbEnd1 ==
    /\ pc = "cb_pattern1"
    /\ pc' = "cb_dedup"
    /\ UNCHANGED <<fsn_marker, aircraft, pages, blocks, default_fsn, matches0,
                   matches1, cb_entries, cb_table, merge, existing, idx, entry,
                   raised, messages, skipped, output>>

\* lines 254-262
CbFinish ==
    /\ pc = "cb_dedup"
    /\ cb_table' = CbResult(cb_entries)
    /\ pc' = "done"
    /\ UNCHANGED <<fsn_marker, aircraft, pages, blocks, default_fsn, matches0,
                   matches1, cb_entries, merge, existing, idx, entry, raised,
                   messages, skipped, output>>

(***************************************************************************)
(* Specifications.  Each starts from the inputs of one function: a marker  *)
(* for fsn_to_aircraft, a page list for split_into_blocks, the matches of  *)
(* the two row patterns for parse_cb_table, and for main the page texts of *)
(* the PDF, the merge flag and the document found at args.out.             *)
(***************************************************************************)
FsnIdle == fsn_marker = <<>> /\ aircraft = <<>>
PagesIdle == pages = <<>> /\ blocks = <<>>
CbIdle ==
    /\ default_fsn = <<>> /\ matches0 = <<>> /\ matches1 = <<>>
    /\ cb_entries = <<>> /\ cb_table = <<>>
MainIdle ==
    /\ merge = FALSE /\ existing = None /\ idx = 0 /\ entry = None
    /\ raised = {} /\ messages = <<>> /\ skipped = 0 /\ output = None

InitFsn ==
    /\ pc = "fsn"
    /\ fsn_marker \in Markers
    /\ aircraft = <<>>
    /\ PagesIdle /\ CbIdle /\ MainIdle
NextFsn == FsnToAircraft
SpecFsn == InitFsn /\ [][NextFsn]_vars

InitSplit ==
    /\ pc = "split"
    /\ pages \in SplitPageLists
    /\ blocks = <<>>
    /\ FsnIdle /\ CbIdle /\ MainIdle
NextSplit == SplitIntoBlocks
SpecSplit == InitSplit /\ [][NextSplit]_vars

InitCb ==
    /\ pc = "cb_pattern0"
    /\ default_fsn \in DefaultFsns
    /\ matches0 = <<>> /\ matches1 = <<>>
    /\ cb_entries = <<>> /\ cb_table = <<>>
    /\ FsnIdle /\ PagesIdle /\ MainIdle
NextCb == CbMatch0 \/ CbEnd0 \/ CbMatch1 \/ CbEnd1 \/ CbFinish
SpecCb == InitCb /\ [][NextCb]_vars

Init ==
    /\ pc = "start"
    /\ pages \in MainPageLists
    /\ merge \in BOOLEAN
    /\ existing \in {None} \cup PriorDocs
    /\ blocks = <<>>
    /\ idx = 0 /\ entry = None /\ raised = {}
    /\ messages = <<>> /\ skipped = 0 /\ output = None
    /\ FsnIdle /\ CbIdle
Next ==
    \/ SplitMain
    \/ ParseReturns
    \/ ParseRaises
    \/ MergeExisting
    \/ MergeKeyError
    \/ SkipMerge
    \/ WriteOutput
Spec == Init /\ [][Next]_vars


(***************************************************************************)
(* Properties.  Strings are written out as tuples of characters.           *)
(***************************************************************************)
IdsOf(ms) == {ms[k].id : k \in 1..Len(ms)}

\* the records the loop of lines 286-300 has collected after n blocks: those
\* of the blocks for which parse_block returned, in block order
RECURSIVE Collected(_)
Collected(n) ==
    IF n = 0 THEN <<>>
    ELSE IF n \in raised THEN Collected(n - 1)
    ELSE Append(Collected(n - 1), parse_block(blocks[n]))

\* the records of ms whose id is not in ids, in the order of ms
RECURSIVE Without(_, _)
Without(ms, ids) ==
    IF ms = <<>> THEN <<>>
    ELSE IF Head(ms).id \in ids THEN Without(Tail(ms), ids)
    ELSE <<Head(ms)>> \o Without(Tail(ms), ids)

\* C1, as the specification states it: in every written document every
\* record id is non-empty and no two records of "messages" share an id.
C1_IdsNonEmptyAndUnique ==
    pc = "done" =>
        /\ \A k \in 1..Len(output.messages) : output.messages[k].id # <<>>
        /\ \A j, k \in 1..Len(output.messages) :
              j # k => output.messages[j].id # output.messages[k].id

\* C1: a document has been written in which two records parsed from two
\* blocks of one page carry the same id
C1_DuplicateIdWritten ==
    /\ pc = "done"
    /\ ~merge
    /\ \E j, k \in 1..Len(output.messages) :
          /\ j < k
          /\ output.messages[j].id = output.messages[k].id
          /\ output.messages[j].source_page = output.messages[k].source_page

\* C2: with --merge and a prior document, the written "messages" is the prior
\* records, unchanged and in their order, followed by exactly the collected
\* records whose id no prior record has, in block order; the written ids are
\* the union of the prior and the fresh ids, and when the run brings no new id
\* the prior "messages" is written back as it was.
C2_MergeLaw ==
    (pc = "done" /\ merge /\ existing # None) =>
        LET prior == existing.messages
            fresh == Collected(Len(blocks))
            out == output.messages
        IN  /\ Len(out) >= Len(prior)
            /\ \A k \in 1..Len(prior) : out[k] = prior[k]
            /\ SubSeq(out, Len(prior) + 1, Len(out)) = Without(fresh, IdsOf(prior))
            /\ IdsOf(out) = IdsOf(prior) \cup IdsOf(fresh)
            /\ IdsOf(fresh) \subseteq IdsOf(prior) => out = prior

\* C2: a merge in which one fresh record has the id of a prior record with
\* other field values, and another fresh record has a new id
C2_MergeKeepsAndAppends ==
    /\ pc = "done" /\ merge /\ existing # None
    /\ LET prior == existing.messages
           fresh == Collected(Len(blocks))
       IN  /\ \E j \in 1..Len(prior), k \in 1..Len(fresh) :
                 prior[j].id = fresh[k].id /\ prior[j] # fresh[k]
           /\ \E k \in 1..Len(fresh) : fresh[k].id \notin IdsOf(prior)
           /\ Len(output.messages) > Len(prior)

\* C3: the loop over the blocks never aborts.  While it runs, the blocks
\* 1..idx have each been handled once, in order: the records are those of the
\* blocks for which parse_block returned, in block order, skipped counts the
\* others, and records plus skipped is idx; the run leaves the loop only when
\* idx is the number of blocks.
C3_LoopNeverAborts ==
    pc # "start" =>
        /\ idx \in 0..Len(blocks)
        /\ raised \subseteq 1..idx
        /\ skipped = Cardinality(raised)
        /\ pc = "loop" =>
              /\ messages = Collected(idx)
              /\ Len(messages) + skipped = idx
        /\ pc \in {"write", "done", "crashed"} =>
              /\ idx = Len(blocks)
              /\ Len(Collected(idx)) + skipped = Len(blocks)

\* C3: the loop has ended after parse_block raised for one block and
\* returned for a later one
C3_RaisedThenParsed ==
    /\ pc = "loop"
    /\ idx = Len(blocks)
    /\ \E j \in raised : \E k \in (j + 1)..idx : k \notin raised
    /\ messages # <<>>
    /\ skipped > 0

\* C4, as the specification states it: when the full-row pattern has no match
\* and the partial-row pattern has some, the table has a row for each partial
\* match, with empty panel and designation, the matched FIN and location,
\* and the default applicability.
C4_PartialRowsKept ==
    (pc = "done" /\ matches0 = <<>> /\ matches1 # <<>>) =>
        /\ \A k \in 1..Len(matches1) :
              \E r \in 1..Len(cb_table) : cb_table[r].fin = matches1[k][1]
        /\ \A r \in 1..Len(cb_table) :
              /\ cb_table[r].panel = <<>>
              /\ cb_table[r].designation = <<>>
              /\ cb_table[r].fsn = default_fsn
              /\ \E k \in 1..Len(matches1) :
                    /\ cb_table[r].fin = matches1[k][1]
                    /\ cb_table[r].location = matches1[k][2]

\* C4: the partial-row pattern matched and the table is empty
C4_PartialRowsLost ==
    /\ pc = "done"
    /\ matches0 = <<>>
    /\ matches1 # <<>>
    /\ cb_table = <<>>

\* C5, as the specification states it: the texts of the blocks, one after
\* the other, are the text of the pages from its first header onward.
C5_BlocksReconstructText ==
    pc = "done" =>
        LET t == full_text(pages)
            h == FirstMatch(t, 1, SubtaskMatchEnd)
        IN  Concat([k \in 1..Len(blocks) |-> blocks[k].text])
              = IF h = 0 THEN <<>> ELSE Slice(t, h, Len(t) + 1)

\* C5: a block text holds a page sentinel that no page text holds
C5_SentinelInBlock ==
    /\ pc = "done"
    /\ \A p \in 1..Len(pages) : ~Contains(pages[p].text, MarkerOpen)
    /\ \E k \in 1..Len(blocks) : Contains(blocks[k].text, MarkerOpen)

\* the header of a block without its first word, the keyword
HeaderWithoutKeyword(header) == Strip(Slice(header, Len(S_SUBTASK) + 1, Len(header) + 1))

\* C6, as the specification states it: for a block in which neither message
\* pattern finds anything, ecamMessages is the header without its keyword,
\* whatever the case of the keyword, and nothing else; without an
\* applicability declaration the aircraft are CEO and NEO; and ecamMessages
\* is never empty.
C6_HeaderFallback ==
    (idx >= 1 /\ idx \notin raised) =>
        LET block == blocks[idx]
        IN  /\ entry.ecamMessages # <<>>
            /\ (EcamPrimary(block.text) = <<>> /\ EcamKnown(block.text) = <<>>) =>
                  /\ entry.ecamMessages = <<HeaderWithoutKeyword(block.subtask_header)>>
                  /\ FirstMatch(block.text, 1, FsnMatchEnd) = 0 =>
                        entry.aircraft = BothVariants

\* C6: a record taken from a header in lower case, the keyword still in it
C6_KeywordKept ==
    /\ idx >= 1 /\ idx \notin raised
    /\ EcamPrimary(blocks[idx].text) = <<>>
    /\ EcamKnown(blocks[idx].text) = <<>>
    /\ LitAt(blocks[idx].subtask_header, 1, Lower(S_SUBTASK), FALSE)
    /\ LitAt(entry.ecamMessages[1], 1, Lower(S_SUBTASK), FALSE)

\* the scenario: the header, the applicability line and the procedure line
ScenarioHeader == <<"S","U","B","T","A","S","K"," ","2","4","-","0","0","-","8","1",
        "0"," ","-"," ","P","A","C","K"," ","F","A","U","L","T"," ","R",
        "E","S","E","T">>
ScenarioFsnLine == <<"*","*"," ","O","N"," ","A","/","C"," ","F","S","N"," ","0","5",
        "1","-","0","7","0">>
ScenarioProcLine == <<"R","E","S","E","T"," ","P","R","O","C","E","D","U","R","E",":",
        " ","1","."," ","O","p","e","n"," ","p","a","n","e","l"," ","2",
        "."," ","P","r","e","s","s"," ","b","u","t","t","o","n">>
IsScenario(block) ==
    /\ block.subtask_header = ScenarioHeader
    /\ Contains(block.text, <<NL>> \o ScenarioFsnLine \o <<NL>>)
    /\ Contains(block.text, <<NL>> \o ScenarioProcLine)
OneStep == <<"1","."," ","O","p","e","n"," ","p","a","n","e","l"," ","2",".",
        " ","P","r","e","s","s"," ","b","u","t","t","o","n">>
TwoSteps == <<"1","."," ","O","p","e","n"," ","p","a","n","e","l","\n","2",".",
        " ","P","r","e","s","s"," ","b","u","t","t","o","n">>

NumbersOf(s) ==
    {StrToInt(Slice(s, i, DigitRunEnd(s, i))) :
        i \in {j \in 1..Len(s) : IsDigit(s[j]) /\ ~IsDigit(At(s, j - 1))}}
\* the serial-number bands named at lines 39 and 40
CeoBand == 51..100
NeoBand == 101..150
\* a marker that names some number, and none of either band
NeitherBand(s) ==
    /\ NumbersOf(s) # {}
    /\ \A n \in NumbersOf(s) : n \notin CeoBand \cup NeoBand

\* C8, as the specification states it: the aircraft list is a non-empty
\* subset of CEO and NEO, and it is both when the marker is empty, holds
\* "ALL" in any case, or names numbers of neither band.
C8_ResolverAsStated ==
    pc = "done" =>
        /\ aircraft # <<>>
        /\ Range(aircraft) \subseteq {S_CEO, S_NEO}
        /\ (\/ fsn_marker = <<>>
            \/ Contains(Upper(fsn_marker), S_ALL)
            \/ NeitherBand(fsn_marker)) => aircraft = BothVariants

\* C8: a marker whose numbers are of neither band is resolved to one variant
C8_OutOfBandResolved ==
    /\ pc = "done"
    /\ NeitherBand(fsn_marker)
    /\ ~Contains(Upper(fsn_marker), S_ALL)
    /\ Len(aircraft) = 1

\* the FINs of a list of rows, and the place of the first row with a FIN
FinsIn(rows) == {rows[k].fin : k \in 1..Len(rows)}
FirstWith(rows, fin) ==
    CHOOSE k \in 1..Len(rows) :
        rows[k].fin = fin /\ \A j \in 1..(k - 1) : rows[j].fin # fin
Least(a, b) == IF a <= b THEN a ELSE b

\* C9: the table has at most 10 rows and no FIN twice; each row is the first
\* of the matched rows with its FIN, the rows are in the order of these first
\* occurrences, and the cut to 10 comes after the duplicates are dropped: the
\* table has 10 rows whenever 10 or more FINs were matched, and then the FINs
\* left out are first met after those kept.
C9_TableDedupThenCap ==
    pc = "done" =>
        /\ Len(cb_table) = Least(MaxRows, Cardinality(FinsIn(cb_entries)))
        /\ \A j, k \in 1..Len(cb_table) : j # k => cb_table[j].fin # cb_table[k].fin
        /\ \A k \in 1..Len(cb_table) :
              cb_table[k] = cb_entries[FirstWith(cb_entries, cb_table[k].fin)]
        /\ \A j, k \in 1..Len(cb_table) :
              j < k => FirstWith(cb_entries, cb_table[j].fin)
                         < FirstWith(cb_entries, cb_table[k].fin)
        /\ \A f \in FinsIn(cb_entries) \ FinsIn(cb_table) :
              \A k \in 1..Len(cb_table) :
                  FirstWith(cb_entries, cb_table[k].fin) < FirstWith(cb_entries, f)

\* C9: more than 10 rows matched, a FIN repeated among the first 10, and a
\* table of 10 rows
C9_DuplicatesBeforeTheCap ==
    /\ pc = "done"
    /\ Len(cb_entries) > MaxRows
    /\ \E j, k \in 1..MaxRows : j < k /\ cb_entries[j].fin = cb_entries[k].fin
    /\ Len(cb_table) = MaxRows

\* the sentinels "<<<PAGE n>>>" that end before position start of s: the
\* positions where they begin
SentinelsBefore(s, start) ==
    {i \in 1..(start - 1) : PageMarkerEnd(s, i) # 0 /\ PageMarkerEnd(s, i) <= start}
SentinelPage(s, i) == StrToInt(Slice(s, i + Len(MarkerOpen), PageMarkerEnd(s, i) - Len(MarkerClose)))
LastSentinelBefore(s, start) ==
    LET I == SentinelsBefore(s, start)
    IN  IF I = {} THEN 0
        ELSE SentinelPage(s, CHOOSE i \in I : \A j \in I : j <= i)
HighestSentinelBefore(s, start) ==
    LET I == SentinelsBefore(s, start)
    IN  IF I = {} THEN 0
        ELSE CHOOSE n \in {SentinelPage(s, i) : i \in I} :
                 \A i \in I : SentinelPage(s, i) <= n

\* C10, amended: the page of a block is the number of the last page sentinel
\* before the start of its header, 0 when there is none; it is the highest of
\* the preceding numbers when these are in ascending order.
C10_PageOfLastSentinel ==
    pc = "done" =>
        LET s == full_with_markers(pages)
            splits == Splits(pages)
        IN  /\ Len(blocks) = Len(splits)
            /\ \A k \in 1..Len(blocks) :
                  blocks[k].page = LastSentinelBefore(s, splits[k][1])

\* C10: a block after two sentinels in descending order, whose page is the
\* lower, later number
C10_LowerPageAfterHigher ==
    /\ pc = "done"
    /\ \E k \in 1..Len(blocks) :
          LET s == full_with_markers(pages)
              start == Splits(pages)[k][1]
          IN  /\ Cardinality(SentinelsBefore(s, start)) >= 2
              /\ blocks[k].page = LastSentinelBefore(s, start)
              /\ blocks[k].page < HighestSentinelBefore(s, start)

\* C10, as the specification states it: the page of a block is the highest
\* number among the page sentinels before the start of its header.
C10_PageOfHighestSentinel ==
    pc = "done" =>
        \A k \in 1..Len(blocks) :
            blocks[k].page
              = HighestSentinelBefore(full_with_markers(pages), Splits(pages)[k][1])

=============================================================================
